---- MODULE Spec2Model ----
(***************************************************************************)
(* Model of the dubbing workflow server (src/automation): the WebSocket    *)
(* and HTTP entry points, the run_workflow task, the Chunker               *)
(* (VideoProcessor), the Segment Transformer (SubformerAgent) and the      *)
(* status broadcaster.                                                     *)
(*                                                                         *)
(* The server is one asyncio event loop.  A coroutine runs without         *)
(* interruption until it awaits something that really suspends: a          *)
(* subprocess, an agent run, a sleep, or the gather of a broadcast to a    *)
(* non-empty set of clients.  The variable loop names the task that is in  *)
(* the middle of such an uninterrupted run (0 when every task is           *)
(* suspended); request handlers and the other tasks only run when it is 0. *)
(*                                                                         *)
(* websocket_server.py declares `global` after the first use of the name   *)
(* in handle_message (lines 122 and 137); the model gives the              *)
(* declarations the function-wide meaning they have in Python.             *)
(*                                                                         *)
(* Seven specifications share the definitions:                             *)
(*   Spec       several jobs, both entry points, collaborators that do     *)
(*              not fail;                                                  *)
(*   SpecJob    one job, both entry points, collaborators that fail;       *)
(*   SpecCast   one job, several WebSocket clients whose connections       *)
(*              break;                                                     *)
(*   SpecLive   one job whose task is scheduled fairly;                    *)
(*   SpecSplit  the chunk count and the cut loop of split_video_to_chunks; *)
(*   SpecMerge  the concat list of merge_video_chunks;                     *)
(*   SpecOrder  the order in which dub_all_chunks visits its chunks.       *)
(***************************************************************************)
EXTENDS Integers, Sequences, FiniteSets, TLC

\* ------------------------------------------------------------- constants
\* config.py:29 and config.py:12
MAX_RETRIES == 3
CHUNK_DURATION_SECONDS == 60
\* f"{i:04d}": the minimum width of a formatted chunk index
PAD_WIDTH == 4

\* ---------------------------------------------------------------- bounds
\* Several jobs with collaborators that do not fail (Spec): task slots and
\* chunks per video.
SysTasks == 2
SysChunks == 1
\* One job with collaborators that fail (SpecJob): task slots, chunks per
\* video, collaborator calls that fail in one behaviour.
JobTasks == 1
JobChunks == 3
MaxFailures == 3
\* Both: the WebSocket clients.
MaxClients == 1
\* One job under fair scheduling (SpecLive): task slots, chunks per video and
\* collaborator calls that fail.
LiveTasks == 1
LiveChunks == 1
LiveFailures == 3
\* One job observed by clients whose connections break (SpecCast).
CastTasks == 1
CastClients == 2
\* Pure functions: durations are counted in ticks of 1/TicksPerSecond s; the
\* length of a list of artifacts given to merge_video_chunks.
TicksPerSecond == 2
MaxDurationSeconds == 7
MaxChunkSeconds == 3
MergeLen == 3

VARIABLES
    current_status,         \* websocket_server.py:14  the status snapshot
    current_workflow_task,  \* websocket_server.py:23  0 is None
    connected_clients,      \* websocket_server.py:12
    broken,                 \* connected clients whose send() raises
    orphans,                \* tasks whose child process outlived its await
    task,                   \* the run_workflow tasks: frame and position
    chunk_files,            \* TEMP_DIR/chunks: indices i with a non-empty chunk_i
    dubbed_files,           \* DUBBED_DIR: indices i with a non-empty dubbed_chunk_i
    concat_list,            \* TEMP_DIR/concat_list.txt
    credentials,            \* SUBFORMER_EMAIL and SUBFORMER_PASSWORD are set
    loop,                   \* the task running between two suspensions, or 0
    failures,               \* collaborator calls that have failed so far
    ev,                     \* what the last step did: request, reply, broadcast
    arg,                    \* pure-function specifications: the input
    out                     \* pure-function specifications: the output

vars == <<current_status, current_workflow_task, connected_clients, broken, orphans,
          task, chunk_files, dubbed_files, concat_list, credentials, loop, failures, ev, arg, out>>

\* ------------------------------------------------------------- values
None == "None"
NoneInt == -1

RECURSIVE GCD(_, _)
GCD(a, b) == IF b = 0 THEN a ELSE GCD(b, a % b)

\* The number (a / b) * 100 as the reduced fraction a/b.
Pct(a, b) == IF a = 0 THEN <<0, 1>> ELSE <<a \div GCD(a, b), b \div GCD(a, b)>>
Zero == Pct(0, 1)
Hundred == Pct(1, 1)

\* A message string: its template and the numbers formatted into it.
Msg(k, a, b) == [k |-> k, a |-> a, b |-> b]
M(k) == Msg(k, 0, 0)
EmptyMsg == M("")

IdleStatus ==
    [status |-> "idle", message |-> EmptyMsg, progress |-> Zero,
     current_chunk |-> 0, total_chunks |-> 0, phase |-> "waiting"]

\* An update that stores its arguments whether or not they were given.
update_status_overwrite(cs, status, message, progress, phase, current_chunk, total_chunks) ==
    [status |-> status, message |-> message, progress |-> progress, phase |-> phase,
     current_chunk |-> current_chunk, total_chunks |-> total_chunks]

\* websocket_server.py:36-53
update_status(cs, status, message, progress, phase, current_chunk, total_chunks) ==
    [status |-> status,
     message |-> message,
     progress |-> progress,
     phase |-> IF phase = None THEN cs.phase ELSE phase,
     current_chunk |-> IF current_chunk = NoneInt THEN cs.current_chunk ELSE current_chunk,
     total_chunks |-> IF total_chunks = NoneInt THEN cs.total_chunks ELSE total_chunks]

\* websocket_server.py:56 - the callback both report_progress methods call:
\* phase and chunk counters given to SubformerAgent.report_progress are dropped.
progress_callback(cs, message, progress) ==
    update_status(cs, "processing", message, progress, None, NoneInt, NoneInt)

NoMsg == [type |-> "none"]
StatusMsg(cs) == [type |-> "status", data |-> cs]
ResultMsg(r) == [type |-> "result", data |-> r]

\* A broadcast that stops at the first send that raises.
ReceiversUntilFailure ==
    IF connected_clients \cap broken = {} THEN connected_clients ELSE {}

\* gather(..., return_exceptions=True): every client whose send works gets it.
Receivers == connected_clients \ broken

\* What a step did: the request handled (kind, the client c) and the status it
\* met (at), or the task t that ran and where (at); the reply sent to the
\* requester, and the message broadcast with the clients it reached.
Ev(kind, t, c, at, reply, bmsg) ==
    [kind |-> kind, t |-> t, c |-> c, at |-> at, reply |-> reply, bmsg |-> bmsg,
     to |-> IF bmsg = NoMsg THEN {} ELSE Receivers]

\* ------------------------------------------------------------- tasks
\* The frame of a run_workflow task and of the calls it is in (success is the
\* caller's local that receives run_ffmpeg's result).  Six fields
\* record what the job has done: invoked (the Reassembler operations called),
\* ok_ops (those whose output passed the caller's check), transformed (the
\* chunks dub_single_chunk reported as dubbed), skipped (those it gave up)
\* written (those whose dubbed file an agent run of this job saved) and sent
\* (the error and completed snapshots and the result messages it broadcast).
NoTask ==
    [pc |-> "none", via |-> "", exists |-> FALSE, must_cancel |-> FALSE, n |-> 0, i |-> 0,
     attempt |-> 0, op |-> "", success |-> FALSE, chunks |-> <<>>, dubbed |-> <<>>,
     is_logged_in |-> FALSE, result |-> [success |-> FALSE, error |-> EmptyMsg],
     invoked |-> {}, ok_ops |-> {}, transformed |-> {}, skipped |-> {}, written |-> {},
     sent |-> <<>>]

NewTask(via, exists) == [NoTask EXCEPT !.pc = "created", !.via = via, !.exists = exists]

\* A finished task keeps nothing but how it was started and how it ended.
Finished(tr, how) == [NoTask EXCEPT !.pc = how, !.via = tr.via]

Done(t) == task[t].pc \in {"done", "cancelled"}
Live(t) == task[t].pc \notin {"none", "done", "cancelled"}

\* A failure result that does not say what failed.
FailResultUnknown(m) == [success |-> FALSE, error |-> EmptyMsg]

FailResult(m) == [success |-> FALSE, error |-> m]
SuccessResult(dubbed) ==
    [success |-> TRUE, dubbed_chunks |-> dubbed,
     merged_dubbed_video |-> "merged_dubbed.mp4",
     dubbed_audio |-> "dubbed_audio.mp3",
     final_video |-> "final_video_hungarian.mp4"]

\* ------------------------------------------------------- pure functions
\* A chunk count that forgets the remainder.
NumChunksFloor(duration, chunk_duration) ==
    duration \div (chunk_duration * TicksPerSecond)

\* video_processor.py:116 with duration in ticks and chunk_duration in seconds:
\* int(duration / chunk_duration) + (1 if duration % chunk_duration > 0 else 0)
NumChunks(duration, chunk_duration) ==
    (duration \div (chunk_duration * TicksPerSecond))
    + (IF duration % (chunk_duration * TicksPerSecond) > 0 THEN 1 ELSE 0)

RECURSIVE Digits(_)
Digits(i) == IF i < 10 THEN <<i>> ELSE Digits(i \div 10) \o <<i % 10>>

RECURSIVE ZeroPad(_, _)
ZeroPad(ds, width) == IF Len(ds) >= width THEN ds ELSE ZeroPad(<<0>> \o ds, width)

\* f"dubbed_chunk_{i:04d}.mp4" / f"chunk_{i:04d}.mp4" without the common prefix
\* and the "mp4" that follows the dot: the characters as code points.
ChunkName(i) == [k \in 1..Len(ZeroPad(Digits(i), PAD_WIDTH)) |->
                    48 + ZeroPad(Digits(i), PAD_WIDTH)[k]] \o <<46>>

\* str.__lt__ (Path.__lt__ compares the parts as strings)
RECURSIVE LexLess(_, _)
LexLess(s, t) ==
    IF t = <<>> THEN FALSE
    ELSE IF s = <<>> THEN TRUE
    ELSE IF Head(s) # Head(t) THEN Head(s) < Head(t)
    ELSE LexLess(Tail(s), Tail(t))

PathLess(i, j) == LexLess(ChunkName(i), ChunkName(j))

RECURSIVE Insert(_, _)
Insert(x, sorted_seq) ==
    IF sorted_seq = <<>> THEN <<x>>
    ELSE IF PathLess(x, Head(sorted_seq)) THEN <<x>> \o sorted_seq
    ELSE <<Head(sorted_seq)>> \o Insert(x, Tail(sorted_seq))

\* sorted(chunks) on a list of chunk paths, each path given by its index
RECURSIVE sorted(_)
sorted(chunks) ==
    IF chunks = <<>> THEN <<>>
    ELSE Insert(chunks[Len(chunks)], sorted(SubSeq(chunks, 1, Len(chunks) - 1)))

\* video_processor.py:157-161: the lines written to concat_list.txt
ConcatList(chunks) == sorted(chunks)

\* ------------------------------------------------- steps of a task
\* What a step of task t leaves alone besides the variables it names.
Frame ==
    UNCHANGED <<current_workflow_task, connected_clients, broken, orphans, credentials,
                arg, out>>

\* A collaborator call returns: the environment lets at most maxFailures fail.
Fault(failed, maxFailures) ==
    /\ failed => failures < maxFailures
    /\ failures' = IF failed THEN failures + 1 ELSE failures

Runnable(t) == loop \in {0, t} /\ Live(t) /\ ~task[t].must_cancel

Go(t, tr) == task' = [task EXCEPT ![t] = tr]

\* update_status ... await broadcast_status(): the gather suspends the task
\* when there is a client to send to (websocket_server.py:26).
Emit(t, cs) ==
    /\ current_status' = cs
    /\ ev' = Ev("step", t, 0, task[t].pc, NoMsg, StatusMsg(cs))
    /\ loop' = IF connected_clients = {} THEN t ELSE 0

\* A step without a broadcast: it suspends (a collaborator call, a sleep) or
\* runs on.
Quiet(t, suspends) ==
    /\ current_status' = current_status
    /\ ev' = Ev("step", t, 0, task[t].pc, NoMsg, NoMsg)
    /\ loop' = IF suspends THEN 0 ELSE t

\* websocket_server.py:197-199: an exception that reaches run_workflow
WorkflowException(t, message) ==
    /\ Go(t, [task[t] EXCEPT !.pc = "w_exc_result", !.result = FailResult(message),
                              !.sent = Append(@, "error")])
    /\ Emit(t, update_status(current_status, "error", message, Zero, "error", NoneInt, NoneInt))

\* f"HIBA: {str(e)}"
Hiba(message) == [k |-> "HIBA", a |-> 0, b |-> 0, e |-> message.k]

\* subformer_agent.py:216-222: an exception caught by process_video_with_dubbing
ProcessException(t, message) ==
    /\ Go(t, [task[t] EXCEPT !.pc = "w_result", !.result = FailResult(message)])
    /\ Emit(t, progress_callback(current_status, Hiba(message), Zero))

\* subformer_agent.py:79 and :122
progress_base(chunk_index, total_chunks) == Pct(chunk_index, total_chunks)
chunk_progress(chunk_index, total_chunks) == Pct(chunk_index + 1, total_chunks)

\* websocket_server.py:160-169
run_workflow_start(t) ==
    /\ Runnable(t) /\ task[t].pc = "created"
    /\ IF ~task[t].exists
       THEN /\ Go(t, [task[t] EXCEPT !.pc = "w_return", !.sent = Append(@, "error")])
            /\ Emit(t, update_status(current_status, "error", M("video_not_found"),
                                     Zero, "error", NoneInt, NoneInt))
       ELSE /\ Go(t, [task[t] EXCEPT !.pc = "w_splitting"])
            /\ Emit(t, update_status(current_status, "processing", M("initializing"),
                                     Zero, "initializing", NoneInt, NoneInt))
    /\ UNCHANGED <<chunk_files, dubbed_files, concat_list, failures>> /\ Frame

\* websocket_server.py:171-174
run_workflow_splitting(t) ==
    /\ Runnable(t) /\ task[t].pc = "w_splitting"
    /\ Go(t, [task[t] EXCEPT !.pc = "s_begin"])
    /\ Emit(t, update_status(current_status, "processing", M("splitting"),
                             Zero, "splitting", NoneInt, NoneInt))
    /\ UNCHANGED <<chunk_files, dubbed_files, concat_list, failures>> /\ Frame

\* The statements that only report progress: message, progress, the
\* Reassembler operation the statement is the first of, and where it goes on.
ReportAt(tr) ==
    CASE tr.pc = "s_begin"  -> [m |-> M("split_started"), p |-> Zero, inv |-> {}, next |-> "s_probe"]
      [] tr.pc = "p_begin"  -> [m |-> M("workflow_start"), p |-> Zero, inv |-> {}, next |-> "d_begin"]
      [] tr.pc = "d_begin"  -> [m |-> M("dubbing_process_start"), p |-> Zero, inv |-> {},
                                next |-> IF tr.is_logged_in THEN "d_sort" ELSE "l_begin"]
      [] tr.pc = "l_begin"  -> [m |-> M("login"), p |-> Zero, inv |-> {}, next |-> "l_check"]
      [] tr.pc = "m_begin"  -> [m |-> M("merge_started"), p |-> Zero, inv |-> {"merge"}, next |-> "m_run"]
      [] tr.pc = "e_report" -> [m |-> M("extracting"), p |-> Zero, inv |-> {}, next |-> "e_begin"]
      [] tr.pc = "e_begin"  -> [m |-> M("extract_started"), p |-> Zero, inv |-> {"extract"}, next |-> "e_run"]
      [] tr.pc = "r_report" -> [m |-> M("replacing"), p |-> Zero, inv |-> {}, next |-> "r_begin"]
      [] tr.pc = "r_begin"  -> [m |-> M("replace_started"), p |-> Zero, inv |-> {"replace"}, next |-> "r_run"]

ReportPcs == {"s_begin", "p_begin", "d_begin", "l_begin", "m_begin", "e_report",
              "e_begin", "r_report", "r_begin"}

report_progress(t) ==
    /\ Runnable(t) /\ task[t].pc \in ReportPcs
    /\ Go(t, [task[t] EXCEPT !.pc = ReportAt(task[t]).next,
                             !.invoked = @ \cup ReportAt(task[t]).inv])
    /\ Emit(t, progress_callback(current_status, ReportAt(task[t]).m, ReportAt(task[t]).p))
    /\ UNCHANGED <<chunk_files, dubbed_files, concat_list, failures>> /\ Frame

\* video_processor.py:104-112 and 57-62: the chunk directory is emptied and
\* ffprobe is started.
split_probe(t) ==
    /\ Runnable(t) /\ task[t].pc = "s_probe"
    /\ Go(t, [task[t] EXCEPT !.pc = "s_probe_wait"])
    /\ Quiet(t, TRUE)
    /\ chunk_files' = {}
    /\ UNCHANGED <<dubbed_files, concat_list, failures>> /\ Frame

\* What ffprobe can report for a video of at most maxChunks chunks, in ticks;
\* 0 is get_video_duration's answer to output it cannot parse.
ProbeResults(maxChunks) ==
    {0} \cup {(k - 1) * CHUNK_DURATION_SECONDS * TicksPerSecond + 1 : k \in 1..maxChunks}
        \cup {maxChunks * CHUNK_DURATION_SECONDS * TicksPerSecond}

\* video_processor.py:62-68 and 113-118
get_video_duration_return(t, duration, maxFailures) ==
    /\ Runnable(t) /\ task[t].pc = "s_probe_wait"
    /\ Fault(duration <= 0, maxFailures)
    /\ IF duration <= 0
       THEN WorkflowException(t, M("duration_error"))
       ELSE /\ Go(t, [task[t] EXCEPT !.pc = "s_loop", !.i = 0, !.chunks = <<>>,
                          !.n = NumChunks(duration, CHUNK_DURATION_SECONDS)])
            /\ Quiet(t, FALSE)
    /\ UNCHANGED <<chunk_files, dubbed_files, concat_list>> /\ Frame

\* video_processor.py:119-137 (the next cut is started) and 146-149
split_loop(t) ==
    /\ Runnable(t) /\ task[t].pc = "s_loop"
    /\ IF task[t].i < task[t].n
       THEN /\ Go(t, [task[t] EXCEPT !.pc = "ff_wait", !.op = "cut", !.attempt = 0])
            /\ Quiet(t, TRUE)
       ELSE IF task[t].chunks = <<>>
       THEN WorkflowException(t, M("no_chunks_error"))
       ELSE /\ Go(t, [task[t] EXCEPT !.pc = "w_dubbing"])
            /\ Quiet(t, FALSE)
    /\ UNCHANGED <<chunk_files, dubbed_files, concat_list, failures>> /\ Frame

FfmpegOutcomes == {"ok_file", "ok_nofile", "fail", "exc"}

\* Where the caller of run_ffmpeg goes on when the output is there.
AfterOp(op) ==
    CASE op = "merge" -> "e_report" [] op = "extract" -> "r_report" [] op = "replace" -> "p_done"

\* video_processor.py:182, 214, 237 and 180, 212, 235: the messages
OpDone(op) ==
    CASE op = "merge" -> M("merge_done") [] op = "extract" -> M("extract_done")
      [] op = "replace" -> M("replace_done")
OpError(op) ==
    CASE op = "merge" -> M("merge_error") [] op = "extract" -> M("extract_error")
      [] op = "replace" -> M("replace_error")

\* TEMP_DIR/chunks after a transcoder run: a cut that ends with its output
\* written leaves chunk_<i>.mp4 (video_processor.py:121-137).
written(files, tr, outcome) ==
    IF tr.op = "cut" /\ outcome = "ok_file" THEN files \cup {tr.i} ELSE files

\* The output of the operation is there when the caller looks: the chunk file
\* for a cut, the output of a Reassembler operation as the run left it.
output_path_exists(files, tr, outcome) ==
    IF tr.op = "cut" THEN tr.i \in files ELSE outcome = "ok_file"

\* A check of a cut that trusts the transcoder's exit code.
cut_accepted_unchecked(success, exists) == success

\* video_processor.py:139
cut_accepted(success, exists) == success /\ exists

\* The caller's check of run_ffmpeg's result: video_processor.py:139-144 for a
\* cut, 179-182, 211-214 and 234-237 for the Reassembler.
ffmpeg_done(t, success, output_exists) ==
    LET tr == [task[t] EXCEPT !.success = success] IN
    IF tr.op = "cut"
    THEN IF cut_accepted(success, output_exists)
         THEN /\ Go(t, [tr EXCEPT !.pc = "s_loop", !.i = @ + 1,
                                  !.chunks = Append(@, tr.i)])
              /\ Emit(t, progress_callback(current_status,
                            Msg("chunk_created", tr.i + 1, tr.n),
                            Pct(tr.i + 1, tr.n)))
         ELSE /\ Go(t, [tr EXCEPT !.pc = "s_loop", !.i = @ + 1])
              /\ Quiet(t, FALSE)
    ELSE IF success /\ output_exists
         THEN /\ Go(t, [tr EXCEPT !.pc = AfterOp(tr.op), !.ok_ops = @ \cup {tr.op}])
              /\ Emit(t, progress_callback(current_status, OpDone(tr.op), Hundred))
         ELSE \* the caller raises, process_video_with_dubbing catches
              /\ Go(t, [tr EXCEPT !.pc = "w_result", !.result = FailResult(OpError(tr.op))])
              /\ Emit(t, progress_callback(current_status, Hiba(OpError(tr.op)), Zero))

\* A run_ffmpeg that gives up at the first attempt that fails.
run_ffmpeg_return_once(t, outcome, maxFailures) ==
    /\ Runnable(t) /\ task[t].pc = "ff_wait"
    /\ Fault(outcome # "ok_file", maxFailures)
    /\ chunk_files' = written(chunk_files, task[t], outcome)
    /\ ffmpeg_done(t, outcome \in {"ok_file", "ok_nofile"},
                   output_path_exists(chunk_files', task[t], outcome))
    /\ UNCHANGED <<dubbed_files, concat_list>> /\ Frame

\* video_processor.py:24-46: one attempt of run_ffmpeg returns
run_ffmpeg_return(t, outcome, maxFailures) ==
    /\ Runnable(t) /\ task[t].pc = "ff_wait"
    /\ Fault(outcome # "ok_file", maxFailures)
    /\ chunk_files' = written(chunk_files, task[t], outcome)
    /\ IF outcome \in {"ok_file", "ok_nofile"}
       THEN ffmpeg_done(t, TRUE, output_path_exists(chunk_files', task[t], outcome))
       ELSE IF task[t].attempt < MAX_RETRIES - 1
       THEN /\ Go(t, [task[t] EXCEPT !.pc = "ff_sleep"])
            /\ Quiet(t, TRUE)
       ELSE ffmpeg_done(t, FALSE, output_path_exists(chunk_files', task[t], outcome))
    /\ UNCHANGED <<dubbed_files, concat_list>> /\ Frame

\* video_processor.py:40/44 then 27: the sleep ends, the next attempt starts
run_ffmpeg_retry(t) ==
    /\ Runnable(t) /\ task[t].pc = "ff_sleep"
    /\ Go(t, [task[t] EXCEPT !.pc = "ff_wait", !.attempt = @ + 1])
    /\ Quiet(t, TRUE)
    /\ UNCHANGED <<chunk_files, dubbed_files, concat_list, failures>> /\ Frame

\* websocket_server.py:177-185
run_workflow_dubbing(t) ==
    /\ Runnable(t) /\ task[t].pc = "w_dubbing"
    /\ Go(t, [task[t] EXCEPT !.pc = "p_begin"])
    /\ Emit(t, update_status(current_status, "processing",
                             Msg("dubbing_start", Len(task[t].chunks), 0),
                             Zero, "dubbing", 0, Len(task[t].chunks)))
    /\ UNCHANGED <<chunk_files, dubbed_files, concat_list, failures>> /\ Frame

\* subformer_agent.py:40-67: the credentials are checked, the first login
\* attempt starts
login_start(t) ==
    /\ Runnable(t) /\ task[t].pc = "l_check"
    /\ IF ~credentials
       THEN ProcessException(t, M("credentials_error"))
       ELSE /\ Go(t, [task[t] EXCEPT !.pc = "login_wait", !.attempt = 0])
            /\ Quiet(t, TRUE)
    /\ UNCHANGED <<chunk_files, dubbed_files, concat_list, failures>> /\ Frame

\* A login whose outcome the caller does not wait to learn.
login_return_ignored(t, ok, maxFailures) ==
    /\ Runnable(t) /\ task[t].pc = "login_wait"
    /\ Fault(~ok, maxFailures)
    /\ Go(t, [task[t] EXCEPT !.pc = "d_sort", !.is_logged_in = ok])
    /\ Emit(t, progress_callback(current_status, M("login_ok"), Hundred))
    /\ UNCHANGED <<chunk_files, dubbed_files, concat_list>> /\ Frame

\* subformer_agent.py:67-76: agent.run() of a login attempt returns or raises
login_return(t, ok, maxFailures) ==
    /\ Runnable(t) /\ task[t].pc = "login_wait"
    /\ Fault(~ok, maxFailures)
    /\ IF ok
       THEN /\ Go(t, [task[t] EXCEPT !.pc = "d_sort", !.is_logged_in = TRUE])
            /\ Emit(t, progress_callback(current_status, M("login_ok"), Hundred))
       ELSE IF task[t].attempt < MAX_RETRIES - 1
       THEN /\ Go(t, [task[t] EXCEPT !.pc = "login_sleep"])
            /\ Quiet(t, TRUE)
       ELSE ProcessException(t, M("login_error"))
    /\ UNCHANGED <<chunk_files, dubbed_files, concat_list>> /\ Frame

\* subformer_agent.py:74 then 62
login_retry(t) ==
    /\ Runnable(t) /\ task[t].pc = "login_sleep"
    /\ Go(t, [task[t] EXCEPT !.pc = "login_wait", !.attempt = @ + 1])
    /\ Quiet(t, TRUE)
    /\ UNCHANGED <<chunk_files, dubbed_files, concat_list, failures>> /\ Frame

\* subformer_agent.py:154-156: dubbed_chunks = [], sorted_chunks = sorted(chunks)
dub_all_chunks_sort(t) ==
    /\ Runnable(t) /\ task[t].pc = "d_sort"
    /\ Go(t, [task[t] EXCEPT !.pc = "d_loop", !.i = 0, !.dubbed = <<>>,
                             !.chunks = sorted(@)])
    /\ Quiet(t, FALSE)
    /\ UNCHANGED <<chunk_files, dubbed_files, concat_list, failures>> /\ Frame

\* subformer_agent.py:158-159 with 79-86 (the next chunk is announced), and
\* 165-176 (the loop is over)
dub_all_chunks_loop(t) ==
    /\ Runnable(t) /\ task[t].pc = "d_loop"
    /\ IF task[t].i < Len(task[t].chunks)
       THEN /\ Go(t, [task[t] EXCEPT !.pc = "c_run"])
            /\ Emit(t, progress_callback(current_status,
                          Msg("chunk_dubbing", task[t].i + 1, Len(task[t].chunks)),
                          progress_base(task[t].i, Len(task[t].chunks))))
       ELSE /\ Go(t, [task[t] EXCEPT !.pc = "p_after_dub"])
            /\ IF task[t].dubbed # <<>>
               THEN Emit(t, progress_callback(current_status,
                          Msg("dubbing_done", Len(task[t].dubbed), Len(task[t].chunks)),
                          Hundred))
               ELSE Emit(t, progress_callback(current_status, M("all_failed"), Zero))
    /\ UNCHANGED <<chunk_files, dubbed_files, concat_list, failures>> /\ Frame

\* subformer_agent.py:88-119: the first agent run for the chunk starts
dub_single_chunk_run(t) ==
    /\ Runnable(t) /\ task[t].pc = "c_run"
    /\ Go(t, [task[t] EXCEPT !.pc = "dub_wait", !.attempt = 0])
    /\ Quiet(t, TRUE)
    /\ UNCHANGED <<chunk_files, dubbed_files, concat_list, failures>> /\ Frame

AgentOutcomes == {"ok_write", "ok_nowrite", "exc"}

\* A check that takes the agent's return for the artifact.
output_ready_unchecked(files, chunk_index) == TRUE

\* subformer_agent.py:121: output_path.exists() and output_path.stat().st_size > 0
output_ready(files, chunk_index) == chunk_index \in files

\* A collection that puts the newest result first.
collect_front(dubbed_chunks, chunk_index) == <<chunk_index>> \o dubbed_chunks

\* subformer_agent.py:160-161: a returned path is appended
collect(dubbed_chunks, chunk_index) == Append(dubbed_chunks, chunk_index)

\* subformer_agent.py:119-137: agent.run() of a dubbing attempt returns or
\* raises; the agent may have written dubbed_chunk_i
dub_single_chunk_return(t, outcome, maxFailures) ==
    /\ Runnable(t) /\ task[t].pc = "dub_wait"
    /\ Fault(outcome # "ok_write", maxFailures)
    /\ dubbed_files' = IF outcome = "ok_write" THEN dubbed_files \cup {task[t].i}
                       ELSE dubbed_files
    /\ LET tr == [task[t] EXCEPT !.written = IF outcome = "ok_write"
                                              THEN @ \cup {task[t].i} ELSE @] IN
       IF outcome # "exc" /\ output_ready(dubbed_files', tr.i)
       THEN /\ Go(t, [tr EXCEPT !.pc = "d_loop", !.i = @ + 1,
                          !.dubbed = collect(@, tr.i),
                          !.transformed = @ \cup {tr.i}])
            /\ Emit(t, progress_callback(current_status,
                          Msg("chunk_dubbed", tr.i + 1, Len(tr.chunks)),
                          chunk_progress(tr.i, Len(tr.chunks))))
       ELSE IF tr.attempt < MAX_RETRIES - 1
       THEN /\ Go(t, [tr EXCEPT !.pc = "dub_sleep"])
            /\ Quiet(t, TRUE)
       ELSE /\ Go(t, [tr EXCEPT !.pc = "c_fail"])
            /\ Quiet(t, FALSE)
    /\ UNCHANGED <<chunk_files, concat_list>> /\ Frame

\* subformer_agent.py:137 then 114
dub_single_chunk_retry(t) ==
    /\ Runnable(t) /\ task[t].pc = "dub_sleep"
    /\ Go(t, [task[t] EXCEPT !.pc = "dub_wait", !.attempt = @ + 1])
    /\ Quiet(t, TRUE)
    /\ UNCHANGED <<chunk_files, dubbed_files, concat_list, failures>> /\ Frame

\* A failure report that counts the chunk as finished.
failed_progress_next(chunk_index, total_chunks) == Pct(chunk_index + 1, total_chunks)

\* subformer_agent.py:139-146 and 162-163: the retries are used up
failed_progress(chunk_index, total_chunks) == progress_base(chunk_index, total_chunks)

dub_single_chunk_failed(t) ==
    /\ Runnable(t) /\ task[t].pc = "c_fail"
    /\ Go(t, [task[t] EXCEPT !.pc = "d_loop", !.i = @ + 1,
                             !.skipped = @ \cup {task[t].i}])
    /\ Emit(t, progress_callback(current_status,
                  Msg("chunk_failed", task[t].i + 1, 0),
                  failed_progress(task[t].i, Len(task[t].chunks))))
    /\ UNCHANGED <<chunk_files, dubbed_files, concat_list, failures>> /\ Frame

\* subformer_agent.py:189-195
process_after_dub(t) ==
    /\ Runnable(t) /\ task[t].pc = "p_after_dub"
    /\ IF task[t].dubbed = <<>>
       THEN /\ Go(t, [task[t] EXCEPT !.pc = "w_result",
                          !.result = FailResult(M("no_chunk_dubbed"))])
            /\ Quiet(t, FALSE)
       ELSE /\ Go(t, [task[t] EXCEPT !.pc = "m_begin"])
            /\ Emit(t, progress_callback(current_status, M("merging"), Zero))
    /\ UNCHANGED <<chunk_files, dubbed_files, concat_list, failures>> /\ Frame

\* video_processor.py:154-177: the concat list is written, ffmpeg starts
merge_video_chunks(t) ==
    /\ Runnable(t) /\ task[t].pc = "m_run"
    /\ concat_list' = ConcatList(task[t].dubbed)
    /\ Go(t, [task[t] EXCEPT !.pc = "ff_wait", !.op = "merge", !.attempt = 0])
    /\ Quiet(t, TRUE)
    /\ UNCHANGED <<chunk_files, dubbed_files, failures>> /\ Frame

\* video_processor.py:188-209
extract_audio(t) ==
    /\ Runnable(t) /\ task[t].pc = "e_run"
    /\ Go(t, [task[t] EXCEPT !.pc = "ff_wait", !.op = "extract", !.attempt = 0])
    /\ Quiet(t, TRUE)
    /\ UNCHANGED <<chunk_files, dubbed_files, concat_list, failures>> /\ Frame

\* video_processor.py:220-232
replace_audio(t) ==
    /\ Runnable(t) /\ task[t].pc = "r_run"
    /\ Go(t, [task[t] EXCEPT !.pc = "ff_wait", !.op = "replace", !.attempt = 0])
    /\ Quiet(t, TRUE)
    /\ UNCHANGED <<chunk_files, dubbed_files, concat_list, failures>> /\ Frame

\* subformer_agent.py:207-215
process_done(t) ==
    /\ Runnable(t) /\ task[t].pc = "p_done"
    /\ Go(t, [task[t] EXCEPT !.pc = "w_result", !.result = SuccessResult(task[t].dubbed)])
    /\ Emit(t, progress_callback(current_status, M("workflow_done"), Hundred))
    /\ UNCHANGED <<chunk_files, dubbed_files, concat_list, failures>> /\ Frame

\* A final update that leaves the job in progress.
final_status_processing(cs, result) ==
    update_status(cs, "processing", M("completed"), Hundred, None, NoneInt, NoneInt)

\* A final update that does not look at the result.
final_status_completed(cs, result) ==
    update_status(cs, "completed", M("completed"), Hundred, "completed", NoneInt, NoneInt)

\* websocket_server.py:187-188 and 190-191
final_status(cs, result) ==
    IF result.success
    THEN update_status(cs, "completed", M("completed"), Hundred, "completed", NoneInt, NoneInt)
    ELSE update_status(cs, "error", result.error, Zero, "error", NoneInt, NoneInt)

run_workflow_result(t) ==
    /\ Runnable(t) /\ task[t].pc = "w_result"
    /\ Go(t, [task[t] EXCEPT !.pc = "w_bresult",
                   !.sent = Append(@, final_status(current_status, task[t].result).status)])
    /\ Emit(t, final_status(current_status, task[t].result))
    /\ UNCHANGED <<chunk_files, dubbed_files, concat_list, failures>> /\ Frame

\* websocket_server.py:189, 192 and 200-203
broadcast_result(t) ==
    /\ Runnable(t) /\ task[t].pc \in {"w_bresult", "w_exc_result"}
    /\ Go(t, [task[t] EXCEPT !.pc = IF @ = "w_bresult" THEN "w_return" ELSE "w_exc_return",
                              !.sent = Append(@, "result")])
    /\ current_status' = current_status
    /\ ev' = Ev("step", t, 0, task[t].pc, NoMsg, ResultMsg(task[t].result))
    /\ loop' = IF connected_clients = {} THEN t ELSE 0
    /\ UNCHANGED <<chunk_files, dubbed_files, concat_list, failures>> /\ Frame

\* run_workflow returns (websocket_server.py:167, 189, 192, 203)
run_workflow_return(t) ==
    /\ Runnable(t) /\ task[t].pc \in {"w_return", "w_exc_return"}
    /\ Go(t, Finished(task[t], "done"))
    /\ current_status' = current_status
    /\ ev' = Ev("step", t, 0, task[t].pc, NoMsg, NoMsg)
    /\ loop' = 0
    /\ UNCHANGED <<chunk_files, dubbed_files, concat_list, failures>> /\ Frame

\* websocket_server.py:125 and :195, http_server.py:208
cancelled_status(cs) ==
    update_status(cs, "cancelled", M("cancelled"), Zero, "cancelled", NoneInt, NoneInt)

\* The positions outside the try body of run_workflow: a CancelledError
\* raised there is not caught by its except clause.
OutsideTry == {"created", "w_exc_result", "w_exc_return", "x_cancel"}

\* The awaits of process.communicate(): a child process of the task is
\* running (video_processor.py:32 and 60).
SubprocessPcs == {"ff_wait", "s_probe_wait"}

\* The awaits of a call into a collaborator: a child process, or a run of the
\* browser agent (subformer_agent.py:58 and 119).
CollaboratorPcs == SubprocessPcs \cup {"login_wait", "dub_wait"}

\* Task.cancel() takes effect when the task next runs: CancelledError is
\* raised at the await the task is suspended in (websocket_server.py:194-196).
\* No handler of run_ffmpeg or get_video_duration catches it (both have only
\* "except Exception") and nothing terminates the child process, which goes
\* on running; the agent's run is a coroutine of the task and ends with it.
task_cancelled(t) ==
    /\ loop = 0 /\ Live(t) /\ task[t].must_cancel
    /\ orphans' = IF task[t].pc \in SubprocessPcs THEN orphans \cup {t} ELSE orphans
    /\ IF task[t].pc \in OutsideTry
       THEN /\ Go(t, Finished(task[t], "cancelled"))
            /\ current_status' = current_status
            /\ ev' = Ev("cancelled", t, 0, task[t].pc, NoMsg, NoMsg)
            /\ loop' = 0
       ELSE /\ Go(t, [task[t] EXCEPT !.pc = "x_cancel", !.must_cancel = FALSE])
            /\ current_status' = cancelled_status(current_status)
            /\ ev' = Ev("cancelled", t, 0, task[t].pc, NoMsg, StatusMsg(current_status'))
            /\ loop' = IF connected_clients = {} THEN t ELSE 0
    /\ UNCHANGED <<chunk_files, dubbed_files, concat_list, failures, current_workflow_task,
                   connected_clients, broken, credentials, arg, out>>

\* A child process left behind by a cancelled task ends by itself.
subprocess_exit(t) ==
    /\ t \in orphans
    /\ orphans' = orphans \ {t}
    /\ ev' = Ev("exit", t, 0, task[t].pc, NoMsg, NoMsg)
    /\ UNCHANGED <<current_status, current_workflow_task, connected_clients, broken,
                   task, chunk_files, dubbed_files, concat_list, credentials, loop,
                   failures, arg, out>>

\* websocket_server.py:196: raise
run_workflow_reraise(t) ==
    /\ Runnable(t) /\ task[t].pc = "x_cancel"
    /\ Go(t, Finished(task[t], "cancelled"))
    /\ current_status' = current_status
    /\ ev' = Ev("cancelled", t, 0, task[t].pc, NoMsg, NoMsg)
    /\ loop' = 0
    /\ UNCHANGED <<chunk_files, dubbed_files, concat_list, failures>> /\ Frame

\* ------------------------------------------------------ the handlers
\* What a handler leaves alone besides the variables it names.
HFrame ==
    UNCHANGED <<orphans, chunk_files, dubbed_files, concat_list, credentials, loop,
                failures, arg, out>>

ErrorMsg(k) == [type |-> "error", message |-> M(k)]
AckMsg(k) == [type |-> "ack", message |-> M(k)]
HttpResponse(code, success) == [type |-> "http", code |-> code, success |-> success]

VideoPaths == {"", "missing", "video"}
PathExists(video_path) == video_path = "video"

\* Task ids are handed out in order: asyncio.create_task makes a new task.
FreeIds(ids) == {t \in ids : task[t].pc = "none"}
NewId(ids) == CHOOSE t \in FreeIds(ids) : \A u \in FreeIds(ids) : t <= u

\* A running-check that lost its `not`.
workflow_running_done(cwt, tk) == cwt # 0 /\ tk[cwt].pc \in {"done", "cancelled"}

\* websocket_server.py:97 and :123, http_server.py:206
workflow_running(cwt, tk) == cwt # 0 /\ tk[cwt].pc \notin {"done", "cancelled"}

\* A connection that is registered without being sent the snapshot.
handle_client_silent(c) ==
    /\ loop = 0 /\ c \notin connected_clients
    /\ connected_clients' = connected_clients \cup {c}
    /\ ev' = Ev("connect", 0, c, current_status.status, NoMsg, NoMsg)
    /\ UNCHANGED <<current_status, current_workflow_task, broken, task>> /\ HFrame

\* websocket_server.py:62-71: a client connects and is sent the snapshot
handle_client(c) ==
    /\ loop = 0 /\ c \notin connected_clients
    /\ connected_clients' = connected_clients \cup {c}
    /\ ev' = Ev("connect", 0, c, current_status.status, StatusMsg(current_status), NoMsg)
    /\ UNCHANGED <<current_status, current_workflow_task, broken, task>> /\ HFrame

\* The connection of a client breaks: send() raises from now on.
connection_lost(c) ==
    /\ loop = 0 /\ c \in connected_clients \ broken
    /\ broken' = broken \cup {c}
    /\ ev' = Ev("lost", 0, c, current_status.status, NoMsg, NoMsg)
    /\ UNCHANGED <<current_status, current_workflow_task, connected_clients, task>> /\ HFrame

\* websocket_server.py:83-88
handle_client_closed(c) ==
    /\ loop = 0 /\ c \in connected_clients
    /\ connected_clients' = connected_clients \ {c}
    /\ broken' = broken \ {c}
    /\ ev' = Ev("closed", 0, c, current_status.status, NoMsg, NoMsg)
    /\ UNCHANGED <<current_status, current_workflow_task, task>> /\ HFrame

\* websocket_server.py:93-113
handle_message_start_workflow(c, video_path, ids) ==
    /\ loop = 0 /\ c \in connected_clients \ broken
    /\ IF video_path = ""
       THEN /\ ev' = Ev("ws_start", 0, c, current_status.status, ErrorMsg("no_video_path"), NoMsg)
            /\ UNCHANGED <<task, current_workflow_task>>
       ELSE IF workflow_running(current_workflow_task, task)
       THEN /\ ev' = Ev("ws_start", 0, c, current_status.status, ErrorMsg("already_running"), NoMsg)
            /\ UNCHANGED <<task, current_workflow_task>>
       ELSE /\ FreeIds(ids) # {}
            /\ task' = [task EXCEPT ![NewId(ids)] = NewTask("ws", PathExists(video_path))]
            /\ current_workflow_task' = NewId(ids)
            /\ ev' = Ev("ws_start", NewId(ids), c, current_status.status, AckMsg("started"), NoMsg)
    /\ UNCHANGED <<current_status, connected_clients, broken>> /\ HFrame

\* http_server.py:84-111
start_workflow(video_path, ids) ==
    /\ loop = 0
    /\ IF video_path = ""
       THEN /\ ev' = Ev("http_start", 0, 0, current_status.status, HttpResponse(400, FALSE), NoMsg)
            /\ UNCHANGED task
       ELSE IF ~PathExists(video_path)
       THEN /\ ev' = Ev("http_start", 0, 0, current_status.status, HttpResponse(404, FALSE), NoMsg)
            /\ UNCHANGED task
       ELSE /\ FreeIds(ids) # {}
            /\ task' = [task EXCEPT ![NewId(ids)] = NewTask("http", TRUE)]
            /\ ev' = Ev("http_start", NewId(ids), 0, current_status.status, HttpResponse(200, TRUE), NoMsg)
    /\ UNCHANGED <<current_status, current_workflow_task, connected_clients, broken>>
    /\ HFrame

\* websocket_server.py:124: Task.cancel() on the registered task
request_cancel(tk, cwt) == [tk EXCEPT ![cwt].must_cancel = TRUE]

\* websocket_server.py:121-134
handle_message_cancel(c) ==
    /\ loop = 0 /\ c \in connected_clients \ broken
    /\ IF workflow_running(current_workflow_task, task)
       THEN /\ task' = request_cancel(task, current_workflow_task)
            /\ current_status' = cancelled_status(current_status)
            /\ ev' = Ev("ws_cancel", current_workflow_task, c, current_status.status, AckMsg("cancelled"),
                        StatusMsg(current_status'))
       ELSE /\ ev' = Ev("ws_cancel", 0, c, current_status.status, ErrorMsg("no_running_workflow"), NoMsg)
            /\ UNCHANGED <<task, current_status>>
    /\ UNCHANGED <<current_workflow_task, connected_clients, broken>> /\ HFrame

\* http_server.py:201-223
cancel_workflow ==
    /\ loop = 0
    /\ IF workflow_running(current_workflow_task, task)
       THEN /\ task' = request_cancel(task, current_workflow_task)
            /\ current_status' = cancelled_status(current_status)
            /\ ev' = Ev("http_cancel", current_workflow_task, 0, current_status.status, HttpResponse(200, TRUE),
                        StatusMsg(current_status'))
       ELSE /\ ev' = Ev("http_cancel", 0, 0, current_status.status, HttpResponse(200, FALSE), NoMsg)
            /\ UNCHANGED <<task, current_status>>
    /\ UNCHANGED <<current_workflow_task, connected_clients, broken>> /\ HFrame

\* A reset that keeps the chunk counters.
reset_status_stale ==
    [IdleStatus EXCEPT !.current_chunk = current_status.current_chunk,
                       !.total_chunks = current_status.total_chunks]

\* websocket_server.py:138-145: the snapshot reset installs
reset_status == IdleStatus

\* websocket_server.py:136-146
handle_message_reset(c) ==
    /\ loop = 0 /\ c \in connected_clients \ broken
    /\ current_status' = reset_status
    /\ ev' = Ev("ws_reset", 0, c, current_status.status, NoMsg, StatusMsg(current_status'))
    /\ UNCHANGED <<task, current_workflow_task, connected_clients, broken>> /\ HFrame

\* ------------------------------------------------------ specifications
InitServer(ids, stale, configured) ==
    /\ current_status = IdleStatus
    /\ current_workflow_task = 0
    /\ connected_clients = {}
    /\ broken = {}
    /\ orphans = {}
    /\ task = [t \in ids |-> NoTask]
    /\ chunk_files = {}
    /\ dubbed_files \in stale
    /\ concat_list = <<>>
    /\ credentials \in configured
    /\ loop = 0
    /\ failures = 0
    /\ ev = [kind |-> "init", t |-> 0, c |-> 0, at |-> "", reply |-> NoMsg,
             bmsg |-> NoMsg, to |-> {}]

InitWith(ids, stale, configured) ==
    /\ InitServer(ids, stale, configured)
    /\ arg = <<>>
    /\ out = [pc |-> "none"]

\* A step of the run_workflow task t, for videos of at most maxChunks chunks
\* and an environment in which at most maxFailures collaborator calls fail.
TaskStep(t, maxChunks, maxFailures) ==
    \/ run_workflow_start(t)
    \/ run_workflow_splitting(t)
    \/ report_progress(t)
    \/ split_probe(t)
    \/ \E duration \in ProbeResults(maxChunks) :
          get_video_duration_return(t, duration, maxFailures)
    \/ split_loop(t)
    \/ \E outcome \in FfmpegOutcomes : run_ffmpeg_return(t, outcome, maxFailures)
    \/ run_workflow_dubbing(t)
    \/ login_start(t)
    \/ \E ok \in BOOLEAN : login_return(t, ok, maxFailures)
    \/ dub_all_chunks_sort(t)
    \/ dub_all_chunks_loop(t)
    \/ dub_single_chunk_run(t)
    \/ \E outcome \in AgentOutcomes : dub_single_chunk_return(t, outcome, maxFailures)
    \/ process_after_dub(t)
    \/ merge_video_chunks(t)
    \/ extract_audio(t)
    \/ replace_audio(t)
    \/ process_done(t)
    \/ run_workflow_result(t)
    \/ broadcast_result(t)
    \/ run_workflow_return(t)
    \/ task_cancelled(t)
    \/ run_workflow_reraise(t)
    \/ subprocess_exit(t)

\* The steps a task only takes after a collaborator call has failed.
RetryStep(t) ==
    \/ run_ffmpeg_retry(t)
    \/ login_retry(t)
    \/ dub_single_chunk_retry(t)
    \/ dub_single_chunk_failed(t)

\* A WebSocket client: the connection and the messages it sends.
ClientStep(c, ids) ==
    \/ handle_client(c)
    \/ handle_client_closed(c)
    \/ \E video_path \in VideoPaths : handle_message_start_workflow(c, video_path, ids)
    \/ handle_message_cancel(c)
    \/ handle_message_reset(c)

\* The HTTP entry point.
HttpStep(ids) ==
    \/ \E video_path \in VideoPaths : start_workflow(video_path, ids)
    \/ cancel_workflow

\* The whole server with several jobs: both entry points, collaborators that
\* do not fail.
Init == InitWith(1..SysTasks, {{}}, {TRUE})

Next ==
    \/ \E t \in 1..SysTasks : TaskStep(t, SysChunks, 0)
    \/ \E c \in 1..MaxClients : ClientStep(c, 1..SysTasks)
    \/ HttpStep(1..SysTasks)

Spec == Init /\ [][Next]_vars

\* One job with collaborators that fail, on a dubbed directory that may hold a
\* file of an earlier run.
InitJob == InitWith(1..JobTasks, {{}, {0}}, BOOLEAN)

NextJob ==
    \/ \E t \in 1..JobTasks : TaskStep(t, JobChunks, MaxFailures) \/ RetryStep(t)
    \/ \E c \in 1..MaxClients : ClientStep(c, 1..JobTasks)
    \/ HttpStep(1..JobTasks)

SpecJob == InitJob /\ [][NextJob]_vars

\* One job and several WebSocket clients whose connections may break.
InitCast == InitWith(1..CastTasks, {{}}, {TRUE})

NextCast ==
    \/ \E t \in 1..CastTasks : TaskStep(t, SysChunks, 0)
    \/ \E c \in 1..CastClients : ClientStep(c, 1..CastTasks) \/ connection_lost(c)

SpecCast == InitCast /\ [][NextCast]_vars

\* One job started over the WebSocket, with collaborators that fail, under
\* the scheduling of the event loop: a task that can run is run, and every
\* collaborator call, sleep and send it waits for returns.
InitLive == InitWith(1..LiveTasks, {{}}, BOOLEAN)

LiveStep(t) == TaskStep(t, LiveChunks, LiveFailures) \/ RetryStep(t)

NextLive ==
    \/ \E t \in 1..LiveTasks : LiveStep(t)
    \/ \E c \in 1..MaxClients : ClientStep(c, 1..LiveTasks)

SpecLive ==
    /\ InitLive /\ [][NextLive]_vars
    /\ \A t \in 1..LiveTasks : WF_vars(LiveStep(t))

\* ------------------------------------------- pure-function specifications
\* What a call of a pure function leaves alone.
PureFrame ==
    UNCHANGED <<current_status, current_workflow_task, connected_clients, broken, orphans,
                task, chunk_files, dubbed_files, concat_list, credentials, loop,
                failures, ev>>

\* split_video_to_chunks(video_path, chunk_duration) on a video whose probed
\* duration is arg.duration ticks.
SplitInputs ==
    [duration : 1..(MaxDurationSeconds * TicksPerSecond), chunk_duration : 1..MaxChunkSeconds]

InitSplit ==
    /\ InitServer({}, {{}}, {TRUE})
    /\ arg \in SplitInputs
    /\ out = [pc |-> "call", num_chunks |-> 0, cuts |-> 0]

\* video_processor.py:116
split_video_to_chunks_count ==
    /\ out.pc = "call"
    /\ out' = [out EXCEPT !.pc = "loop",
                          !.num_chunks = NumChunks(arg.duration, arg.chunk_duration)]
    /\ UNCHANGED arg /\ PureFrame

\* video_processor.py:119-137: for i in range(num_chunks), one cut is attempted
split_video_to_chunks_cut ==
    /\ out.pc = "loop"
    /\ out' = IF out.cuts < out.num_chunks
              THEN [out EXCEPT !.cuts = @ + 1]
              ELSE [out EXCEPT !.pc = "return"]
    /\ UNCHANGED arg /\ PureFrame

NextSplit == split_video_to_chunks_count \/ split_video_to_chunks_cut

SpecSplit == InitSplit /\ [][NextSplit]_vars

\* merge_video_chunks(chunks, output_path) on a list of dubbed chunks, each
\* given by the index in its name dubbed_chunk_<index>.mp4.
WideIndex == 10 ^ PAD_WIDTH
MergeIndices == 0..(MergeLen - 1) \cup {WideIndex - 1, WideIndex}

RECURSIVE Lists(_, _)
Lists(S, len) ==
    IF len = 0 THEN {<<>>}
    ELSE Lists(S, len - 1)
         \cup {Append(l, x) : l \in {m \in Lists(S, len - 1) : Len(m) = len - 1},
                              x \in S}

Distinct(l) == \A j, k \in 1..Len(l) : j # k => l[j] # l[k]

MergeInputs == {l \in Lists(MergeIndices, MergeLen) : Distinct(l)}

InitMerge ==
    /\ InitServer({}, {{}}, {TRUE})
    /\ arg \in MergeInputs
    /\ out = [pc |-> "call", concat_list |-> <<>>]

\* video_processor.py:157-161
merge_video_chunks_write ==
    /\ out.pc = "call"
    /\ out' = [pc |-> "return", concat_list |-> ConcatList(arg)]
    /\ UNCHANGED arg /\ PureFrame

NextMerge == merge_video_chunks_write

SpecMerge == InitMerge /\ [][NextMerge]_vars

\* dub_all_chunks(chunks) on a list the Chunker can return: chunk indices in
\* ascending order, some possibly missing.  out.runs lists the segments in the
\* order their agent runs are started.
OrderInputs ==
    {l \in Lists(MergeIndices, MergeLen) : \A j \in 1..(Len(l) - 1) : l[j] < l[j + 1]}

InitOrder ==
    /\ InitServer({}, {{}}, {TRUE})
    /\ arg \in OrderInputs
    /\ out = [pc |-> "call", sorted_chunks |-> <<>>, runs |-> <<>>]

\* subformer_agent.py:154-156
dub_all_chunks_order ==
    /\ out.pc = "call"
    /\ out' = [out EXCEPT !.pc = "loop", !.sorted_chunks = sorted(arg)]
    /\ UNCHANGED arg /\ PureFrame

\* subformer_agent.py:158-159: the next segment of the sorted list is handed
\* to dub_single_chunk, which returns before the loop goes on
dub_all_chunks_next ==
    /\ out.pc = "loop"
    /\ IF Len(out.runs) < Len(out.sorted_chunks)
       THEN out' = [out EXCEPT !.runs = Append(@, out.sorted_chunks[Len(out.runs) + 1])]
       ELSE out' = [out EXCEPT !.pc = "return"]
    /\ UNCHANGED arg /\ PureFrame

NextOrder == dub_all_chunks_order \/ dub_all_chunks_next

SpecOrder == InitOrder /\ [][NextOrder]_vars

\* ------------------------------------------------------------- properties
ReassemblerOps == {"merge", "extract", "replace"}
Terminal == {"completed", "error", "cancelled"}

\* A task that has started to run and has not finished.
Running(t) == task[t].pc \notin {"none", "created", "done", "cancelled"}

Ascending(l) == \A j \in 1..(Len(l) - 1) : l[j] < l[j + 1]

\* The elements of a set of numbers in ascending order.
RECURSIVE AscSeq(_)
AscSeq(S) ==
    IF S = {} THEN <<>>
    ELSE LET m == CHOOSE x \in S : \A y \in S : x <= y
         IN  <<m>> \o AscSeq(S \ {m})

\* ceil(a / b) for a >= 1 and b >= 1
Ceil(a, b) == CHOOSE k \in 0..a : k * b >= a /\ (k - 1) * b < a

\* C1: in every reachable state at most one run_workflow task is running,
\* whatever start requests arrive over the WebSocket or over POST /start.
C1_AtMostOneRunning == Cardinality({t \in DOMAIN task : Running(t)}) <= 1

\* C2: a WebSocket start_workflow request handled while the registered task is
\* not done is answered with an error and changes nothing: no task is created,
\* current_workflow_task is the same task, the status snapshot is the same.
C2_StartWhileRunningRejected ==
    [][(/\ ev'.kind = "ws_start"
        /\ current_workflow_task # 0
        /\ Live(current_workflow_task))
       => /\ ev'.reply.type = "error"
          /\ task' = task
          /\ current_workflow_task' = current_workflow_task
          /\ current_status' = current_status]_vars

\* The start request has just been refused while the registered task runs.
C2_Witness ==
    /\ ev.kind = "ws_start"
    /\ ev.reply = ErrorMsg("already_running")
    /\ current_workflow_task # 0
    /\ Running(current_workflow_task)

\* The positions of a job between the first and the last chunk transform.
DubbingPcs == {"d_loop", "c_run", "dub_wait", "dub_sleep", "c_fail"}

\* C3: when a cancel request is handled while a job is dubbing, the status
\* becomes cancelled with progress 0 and the job is stopped: its next step is
\* the cancellation, so it invokes no merge, extract or replace and emits no
\* later processing or completed snapshot.
C3_CancelDuringDubbing ==
    (/\ ev.kind \in {"ws_cancel", "http_cancel"}
     /\ \E t \in DOMAIN task : task[t].pc \in DubbingPcs)
    => /\ current_status.status = "cancelled"
       /\ current_status.progress = Zero
       /\ \A t \in DOMAIN task : task[t].pc \in DubbingPcs => task[t].must_cancel

\* C4: for every list of dubbed chunks given to merge_video_chunks, in any
\* order, the concat list names the same chunks in strictly ascending index
\* order.
C4_ConcatListAscending ==
    out.pc = "return"
    => /\ Ascending(out.concat_list)
       /\ {out.concat_list[k] : k \in 1..Len(out.concat_list)} = {arg[k] : k \in 1..Len(arg)}

\* A step in which dub_single_chunk reported the end of chunk i: dubbed, or
\* given up after the last retry.  The task's counter is i + 1 afterwards.
SegmentDone == ev.kind = "step" /\ ev.at \in {"dub_wait", "c_fail"} /\ ev.bmsg # NoMsg

C6_CutsAreCeil ==
    /\ out.cuts <= out.num_chunks
    /\ out.pc = "return"
       => /\ out.cuts = Ceil(arg.duration, arg.chunk_duration * TicksPerSecond)
          /\ out.cuts >= 1
    /\ NumChunks(125 * TicksPerSecond, 60) = 3
    /\ NumChunks(60 * TicksPerSecond, 60) = 1

\* The split of a video of two chunk durations and a bit has made its cuts.
C6_Witness ==
    /\ out.pc = "return" /\ out.cuts = 3
    /\ arg.duration > 2 * arg.chunk_duration * TicksPerSecond
    /\ arg.duration < 3 * arg.chunk_duration * TicksPerSecond

\* A job in which some chunks were dubbed, some were given up, and merge,
\* extract and replace all passed their check.
PartialJob(tr) ==
    tr.skipped # {} /\ tr.transformed # {} /\ tr.ok_ops = ReassemblerOps

\* C7: a job in which some but not all chunks exhaust their retries, and merge,
\* extract and replace succeed, sets status completed, and its result has
\* success true with dubbed_chunks the dubbed chunks, once each, in ascending
\* index order.
C7_PartialFailureCompletes ==
    \A t \in DOMAIN task :
        PartialJob(task[t])
        => /\ task[t].transformed \cap task[t].skipped = {}
           /\ task[t].pc \in {"w_result", "w_bresult", "w_return"}
              => /\ task[t].result.success
                 /\ task[t].result.dubbed_chunks = AscSeq(task[t].transformed)
           /\ (ev.kind = "step" /\ ev.t = t /\ ev.at = "w_result")
              => /\ current_status.status = "completed"
                 /\ ev.bmsg = StatusMsg(current_status)
           /\ (ev.kind = "step" /\ ev.t = t /\ ev.at = "w_bresult")
              => /\ ev.bmsg.type = "result"
                 /\ ev.bmsg.data.success
                 /\ ev.bmsg.data.dubbed_chunks = AscSeq(task[t].transformed)

\* The result of a job that dubbed two chunks of three has just been broadcast.
C7_Witness ==
    /\ ev.kind = "step" /\ ev.at = "w_bresult"
    /\ PartialJob(task[ev.t])
    /\ Cardinality(task[ev.t].transformed) = 2
    /\ current_status.status = "completed"

\* A job whose every chunk was given up after the last retry.
AllFailed(tr) ==
    tr.transformed = {} /\ tr.skipped # {} /\ tr.skipped = 0..(Len(tr.chunks) - 1)

\* C8: a job in which every chunk exhausts its retries sets status error with
\* a non-empty message, never invokes merge, extract or replace, and every
\* result it broadcasts has success false.
C8_AllFailedIsError ==
    \A t \in DOMAIN task :
        AllFailed(task[t])
        => /\ task[t].invoked \cap ReassemblerOps = {}
           /\ task[t].pc \notin {"m_begin", "m_run", "e_report", "e_begin", "e_run",
                                 "r_report", "r_begin", "r_run", "p_done", "ff_wait",
                                 "ff_sleep"}
           /\ (ev.kind = "step" /\ ev.t = t /\ ev.at = "w_result")
              => /\ current_status.status = "error"
                 /\ current_status.message # EmptyMsg
                 /\ ev.bmsg = StatusMsg(current_status)
           /\ (ev.kind = "step" /\ ev.t = t /\ ev.bmsg.type = "result")
              => ~ev.bmsg.data.success

\* The result of a job that gave up its only chunk has just been broadcast.
C8_Witness ==
    /\ ev.kind = "step" /\ ev.at = "w_bresult"
    /\ AllFailed(task[ev.t])
    /\ ev.bmsg.type = "result"
    /\ current_status.status = "error"

\* C9: whatever the status was, after a reset request the snapshot is
\* {status: idle, message: "", progress: 0, current_chunk: 0, total_chunks: 0,
\* phase: waiting}, and that snapshot was broadcast to every connected client.
C9_ResetGivesIdle ==
    ev.kind = "ws_reset"
    => /\ current_status = [status |-> "idle", message |-> EmptyMsg, progress |-> Zero,
                            current_chunk |-> 0, total_chunks |-> 0, phase |-> "waiting"]
       /\ ev.bmsg = [type |-> "status", data |-> current_status]
       /\ ev.to = connected_clients
       /\ ev.c \in ev.to

\* A reset has just been handled while a job was running with status completed.
C9_Witness ==
    /\ ev.kind = "ws_reset" /\ ev.at = "completed"
    /\ \E t \in DOMAIN task : Running(t)

\* C10: once the status is completed, error or cancelled, nothing but a reset
\* or the first update of a newly accepted job changes the status field; a
\* cancel request never turns completed or error into cancelled.
C10_TerminalIsFinal ==
    [][(/\ current_status.status \in Terminal
        /\ current_status'.status # current_status.status)
       => \/ ev'.kind = "ws_reset"
          \/ ev'.kind = "step" /\ ev'.at = "created"]_vars

\* a/b <= c/d for progress values
PctLeq(p, q) == p[1] * q[2] <= q[1] * p[2]

\* C11: of two consecutive status snapshots broadcast during one job that
\* carry the same phase, the later has a progress greater than or equal to
\* the earlier.  With one task slot every snapshot a task broadcasts after its
\* first follows a snapshot of the same job or of a request handled meanwhile.
C11_ProgressMonotoneInPhase ==
    [][(/\ ev'.kind = "step" /\ ev'.at # "created"
        /\ ev'.bmsg.type = "status"
        /\ ev'.bmsg.data.phase = current_status.phase)
       => PctLeq(current_status.progress, ev'.bmsg.data.progress)]_vars

\* the phase a job enters with the report made at each of these positions
\* (run_workflow and process_video_with_dubbing name it in the call)
EnteredPhase ==
    [created |-> "initializing", w_splitting |-> "splitting",
     w_dubbing |-> "dubbing", p_after_dub |-> "merging",
     e_report |-> "extracting", r_report |-> "replacing",
     w_result |-> "completed"]

\* C12: each phase a succeeding job enters is observable: the snapshot
\* broadcast with the report that enters the phase carries that phase.
C12_EnteredPhaseObservable ==
    (/\ ev.kind = "step" /\ ev.bmsg.type = "status"
     /\ ev.at \in DOMAIN EnteredPhase
     /\ ev.bmsg.data.status # "error")
    => ev.bmsg.data.phase = EnteredPhase[ev.at]

CancelKinds == {"ws_cancel", "http_cancel"}

\* C13: a cancel accepted while a collaborator call of the job is in flight
\* does not set the status to cancelled, and the workflow is never interrupted
\* at the await of a collaborator call.
C13_CancelWaitsForCollaborator ==
    /\ (/\ ev.kind \in CancelKinds /\ ev.t # 0
        /\ task[ev.t].pc \in CollaboratorPcs)
       => current_status.status # "cancelled"
    /\ ev.kind = "cancelled" => ev.at \notin CollaboratorPcs

\* C14: once the task of a cancelled job has finished, no child process
\* started by that job is still running.
C14_NoSubprocessAfterCancel ==
    \A t \in DOMAIN task : task[t].pc = "cancelled" => t \notin orphans

\* C15: when the send to one observer fails, every other observer receives the
\* full new snapshot, and the task whose update it was goes on (it takes the
\* exception path only if the update itself reported an error).
C15_BroadcastSurvivesFailure ==
    (ev.bmsg.type = "status" /\ connected_clients \cap broken # {})
    => /\ ev.to = connected_clients \ broken
       /\ ev.bmsg.data = current_status
       /\ ev.kind = "step"
          => /\ Live(ev.t)
             /\ task[ev.t].pc \in {"w_exc_result", "w_exc_return"}
                => ev.bmsg.data.status = "error"

C15_Witness ==
    /\ ev.kind = "step" /\ ev.bmsg.type = "status"
    /\ connected_clients \cap broken # {}
    /\ ev.to # {}
    /\ ev.at = "login_wait"

WsRequestKinds == {"ws_start", "ws_cancel", "ws_reset"}

\* C16: the step that registers an observer sends it a status message with
\* the current snapshot; a broadcast reaches only observers registered before
\* it, and a request is handled only from an observer registered before it.
C16_SnapshotFirst ==
    [][/\ \A c \in 1..CastClients :
            (c \notin connected_clients /\ c \in connected_clients')
            => /\ ev'.kind = "connect" /\ ev'.c = c
               /\ ev'.reply = [type |-> "status", data |-> current_status']
       /\ ev'.bmsg # NoMsg => ev'.to \subseteq connected_clients
       /\ ev'.kind \in WsRequestKinds => ev'.c \in connected_clients]_vars

C16_Witness ==
    /\ ev.kind = "connect" /\ ev.at = "processing"
    /\ connected_clients = 1..CastClients
    /\ \E t \in DOMAIN task : task[t].pc = "dub_wait"

\* The job has met a fatal failure: its result-to-be is a failure.
Failed(tr) == tr.pc \in {"w_result", "w_bresult", "w_exc_result"} /\ ~tr.result.success

\* The message of the fatal failure met by a job that got as far as tr and
\* whose failing step was made at the position at.
FailureMessage(tr, at) ==
    CASE at = "s_probe_wait" -> M("duration_error")
      [] at = "s_loop" -> M("no_chunks_error")
      [] at = "l_check" -> M("credentials_error")
      [] at = "login_wait" -> M("login_error")
      [] at = "p_after_dub" -> M("no_chunk_dubbed")
      [] at = "ff_wait" -> OpError(tr.op)

FailurePcs == {"s_probe_wait", "s_loop", "l_check", "login_wait", "p_after_dub", "ff_wait"}

\* C17: when a collaborator fails fatally the job's failure carries the
\* message of that failure, the status the job then sets is error with that
\* message, and from the failure on the job is at no position where a
\* collaborator is called or awaited.
C17_FatalFailureIsError ==
    \A t \in DOMAIN task :
        /\ (ev.kind = "step" /\ ev.t = t /\ ev.at \in FailurePcs /\ Failed(task[t]))
           => /\ task[t].result.error = FailureMessage(task[t], ev.at)
              /\ task[t].pc = "w_exc_result"
                 => /\ current_status.status = "error"
                    /\ current_status.message = FailureMessage(task[t], ev.at)
        /\ (ev.kind = "step" /\ ev.t = t /\ ev.at = "w_result" /\ ~task[t].result.success)
           => /\ current_status.status = "error"
              /\ current_status.message = task[t].result.error
              /\ current_status.message # EmptyMsg
        /\ ~task[t].result.success /\ task[t].result.error # EmptyMsg
           => task[t].pc \in {"w_result", "w_bresult", "w_return", "w_exc_result",
                              "w_exc_return", "x_cancel"}

C17_Witness ==
    /\ ev.kind = "step" /\ ev.at = "w_result"
    /\ current_status.status = "error"
    /\ current_status.message = M("extract_error")
    /\ task[ev.t].invoked = {"merge", "extract"}

\* C18: whenever a job sets the status to error, the snapshot it broadcasts
\* carries a message, and the next thing the job does is broadcast a result
\* message with success false and an error string.
C18_ErrorHasResult ==
    /\ (ev.kind = "step" /\ ev.bmsg.type = "status" /\ ev.bmsg.data.status = "error")
       => /\ ev.bmsg.data.message # EmptyMsg
          /\ task[ev.t].pc \in {"w_bresult", "w_exc_result"}
    /\ (ev.kind = "step" /\ ev.bmsg.type = "result" /\ current_status.status = "error")
       => /\ ~ev.bmsg.data.success
          /\ ev.bmsg.data.error # EmptyMsg

\* C19: when a job sets the status to completed the progress is 100, merge,
\* extract and replace have succeeded, each invoked only after the one before
\* it had succeeded, and the job is not ended before it has broadcast its
\* success result naming the merged video, the audio and the final video.
C19_CompletedIsWhole ==
    \A t \in DOMAIN task :
        /\ (ev.kind = "step" /\ ev.t = t /\ ev.at = "w_result"
            /\ current_status.status = "completed")
           => /\ current_status.progress = Hundred
              /\ task[t].ok_ops = ReassemblerOps
              /\ task[t].result = SuccessResult(task[t].dubbed)
        /\ "extract" \in task[t].invoked => "merge" \in task[t].ok_ops
        /\ "replace" \in task[t].invoked => "extract" \in task[t].ok_ops
        /\ (ev.kind = "step" /\ ev.t = t /\ ev.at = "w_bresult" /\ task[t].result.success)
           => ev.bmsg = ResultMsg(task[t].result)
        /\ ~(ev.kind = "cancelled" /\ ev.t = t /\ ev.at = "w_bresult"
             /\ task[t].result.success)

StartKinds == {"ws_start", "http_start"}
StartAccepted == {AckMsg("started"), HttpResponse(200, TRUE)}

\* C20: a start request is rejected exactly when the status it meets is
\* processing.
C20_RejectedIffProcessing ==
    ev.kind \in StartKinds
    => /\ ev.reply = ErrorMsg("already_running") => ev.at = "processing"
       /\ ev.reply \in StartAccepted => ev.at # "processing"

Statuses == {"idle", "processing", "completed", "error", "cancelled"}

\* The shape the document gives a snapshot.
WellFormed(cs) ==
    /\ cs.status \in Statuses
    /\ cs.progress[2] > 0 /\ 0 <= cs.progress[1] /\ cs.progress[1] <= cs.progress[2]
    /\ cs.current_chunk \in Nat /\ cs.total_chunks \in Nat
    /\ cs.current_chunk <= cs.total_chunks

\* C21: in every reachable state the snapshot, and every snapshot sent to a
\* client, has a status among idle, processing, completed, error, cancelled, a
\* progress between 0 and 100 and non-negative chunk counters with
\* current_chunk <= total_chunks.
C21_SnapshotShape ==
    /\ WellFormed(current_status)
    /\ ev.bmsg.type = "status" => WellFormed(ev.bmsg.data)
    /\ ev.reply.type = "status" => WellFormed(ev.reply.data)

C21_Witness ==
    /\ current_status.status = "processing"
    /\ current_status.total_chunks = JobChunks
    /\ current_status.progress = Pct(2, JobChunks)
    /\ ev.bmsg = [type |-> "status", data |-> current_status]

\* C22: the indices of the segments split_video_to_chunks returns are
\* 0, 1, ..., k-1, and the segment being transformed is stored under the index
\* the Chunker gave it.
C22_IndicesContiguous ==
    \A t \in DOMAIN task :
        /\ task[t].pc = "w_dubbing"
           => \A j \in 1..Len(task[t].chunks) : task[t].chunks[j] = j - 1
        /\ task[t].pc = "dub_wait"
           => task[t].chunks[task[t].i + 1] = task[t].i

\* C23: for every segment the agent is run at most MAX_RETRIES times; the
\* attempts stop at the first one after which the artifact is there, and the
\* segment then counts as transformed; a sleep only follows an attempt that is
\* not the last; after MAX_RETRIES failed attempts the segment is skipped and
\* the loop goes on with the next segment, every earlier segment being either
\* transformed or skipped.
C23_BoundedSegmentRetries ==
    \A t \in DOMAIN task :
        /\ task[t].pc \in {"dub_wait", "dub_sleep", "c_fail"}
           => task[t].attempt + 1 <= MAX_RETRIES
        /\ task[t].pc = "dub_sleep" => task[t].attempt + 1 < MAX_RETRIES
        /\ task[t].pc = "c_fail" => task[t].attempt + 1 = MAX_RETRIES
        /\ (ev.kind = "step" /\ ev.t = t /\ ev.at = "dub_wait" /\ task[t].pc = "d_loop")
           => /\ task[t].i - 1 \in dubbed_files
              /\ task[t].i - 1 \in task[t].transformed
              /\ task[t].dubbed[Len(task[t].dubbed)] = task[t].i - 1
        /\ (ev.kind = "step" /\ ev.t = t /\ ev.at = "dub_wait" /\ task[t].pc # "d_loop")
           => /\ task[t].pc \in {"dub_sleep", "c_fail"}
              /\ failures > 0
              /\ task[t].i \notin task[t].transformed
        /\ (ev.kind = "step" /\ ev.t = t /\ ev.at = "c_fail")
           => /\ task[t].pc = "d_loop"
              /\ task[t].i - 1 \in task[t].skipped
        /\ task[t].pc \in DubbingPcs
           => /\ task[t].transformed \cap task[t].skipped = {}
              /\ task[t].transformed \cup task[t].skipped = 0..(task[t].i - 1)

C23_Witness ==
    /\ ev.kind = "step" /\ ev.at = "dub_wait"
    /\ task[ev.t].pc = "d_loop"
    /\ task[ev.t].skipped = {0}
    /\ task[ev.t].transformed = {1}

\* The positions of dub_single_chunk.
SegmentPcs == {"c_run", "dub_wait", "dub_sleep", "c_fail"}

\* C24: no segment transform is invoked before a login attempt has succeeded;
\* login is attempted at most MAX_RETRIES times and only before the first
\* segment; a job whose login attempts all failed has invoked no segment
\* transform and sets the status to error.
C24_LoginBeforeSegments ==
    \A t \in DOMAIN task :
        /\ task[t].pc \in SegmentPcs => task[t].is_logged_in
        /\ task[t].transformed \cup task[t].skipped # {} => task[t].is_logged_in
        /\ task[t].pc \in {"login_wait", "login_sleep"}
           => /\ task[t].attempt + 1 <= MAX_RETRIES
              /\ ~task[t].is_logged_in
              /\ task[t].transformed \cup task[t].skipped = {}
        /\ task[t].pc = "login_sleep" => task[t].attempt + 1 < MAX_RETRIES
        /\ (ev.kind = "step" /\ ev.t = t /\ ev.at = "login_wait"
            /\ task[t].pc \notin {"login_sleep", "d_sort"})
           => /\ task[t].attempt + 1 = MAX_RETRIES
              /\ task[t].pc = "w_result"
              /\ ~task[t].result.success
        /\ (task[t].pc \in {"w_result", "w_bresult", "w_return"} /\ ~task[t].is_logged_in)
           => /\ task[t].transformed \cup task[t].skipped = {}
              /\ ~task[t].result.success
        /\ (ev.kind = "step" /\ ev.t = t /\ ev.at = "w_result" /\ ~task[t].is_logged_in)
           => current_status.status = "error"

C24_Witness ==
    /\ ev.kind = "step" /\ ev.at = "w_result"
    /\ current_status.status = "error"
    /\ current_status.message = M("login_error")
    /\ failures = MAX_RETRIES

\* C25: every accepted job leads to a status among completed, error and
\* cancelled, and the status does not stay processing forever.
C25_JobEnds ==
    /\ (ev.kind \in StartKinds /\ ev.reply \in StartAccepted)
       ~> (current_status.status \in Terminal)
    /\ <>[](current_status.status # "processing")

C25_Witness ==
    /\ current_status.status = "completed"
    /\ failures = LiveFailures
    /\ \E t \in 1..LiveTasks : task[t].pc = "done"

\* run_ffmpeg has just returned to its caller in task t.
FfmpegReturned(t) ==
    /\ ev.kind = "step" /\ ev.t = t /\ ev.at = "ff_wait"
    /\ task[t].pc \notin {"ff_wait", "ff_sleep"}

\* C26: run_ffmpeg makes at most MAX_RETRIES attempts; a sleep only follows
\* an attempt that is not the last; it returns false only after the
\* MAX_RETRIES-th attempt, every attempt having failed, and true as soon as an
\* attempt exits with 0, whose output the caller then checks.
C26_BoundedTranscoderRetries ==
    \A t \in DOMAIN task :
        /\ task[t].pc \in {"ff_wait", "ff_sleep"} => task[t].attempt + 1 <= MAX_RETRIES
        /\ task[t].pc = "ff_sleep"
           => /\ task[t].attempt + 1 < MAX_RETRIES
              /\ failures >= task[t].attempt + 1
        /\ (FfmpegReturned(t) /\ ~task[t].success)
           => /\ task[t].attempt + 1 = MAX_RETRIES
              /\ failures >= MAX_RETRIES
              /\ task[t].op \notin task[t].ok_ops
        /\ (FfmpegReturned(t) /\ task[t].success)
           => /\ failures >= task[t].attempt
              /\ task[t].op \in ReassemblerOps
                 => task[t].pc \in {AfterOp(task[t].op), "w_result"}

C26_Witness ==
    /\ FfmpegReturned(ev.t)
    /\ task[ev.t].success
    /\ task[ev.t].attempt + 1 = MAX_RETRIES
    /\ task[ev.t].op = "merge"

\* C27: the segments of a job are handed to the agent one after the other in
\* increasing order of their sequence index.
C27_SegmentsInIndexOrder ==
    out.pc \in {"loop", "return"} => Ascending(out.runs)

\* Task t is inside split_video_to_chunks after the probe, or has just left it
\* with its list of cuts.
Splitting(tr) ==
    \/ tr.pc \in {"s_loop", "w_dubbing"}
    \/ tr.pc \in {"ff_wait", "ff_sleep"} /\ tr.op = "cut"

\* The step just taken by task t left position at.
Stepped(t, at) == ev.kind = "step" /\ ev.t = t /\ ev.at = at

\* C28: the list split_video_to_chunks builds is in ascending index order and
\* a cut enters it exactly when its transcoder call succeeded and its output
\* file is there when the caller looks; a rejected cut is skipped and the loop
\* goes on; an empty list or a probed duration that is not positive raises,
\* the status becomes error, and the job has then invoked no segment
\* transform (and, for the duration, no cut).
C28_AcceptedCuts ==
    \A t \in DOMAIN task :
        LET tr == task[t] IN
        /\ Splitting(tr)
           => /\ Ascending(tr.chunks)
              /\ \A j \in 1..Len(tr.chunks) : tr.chunks[j] < tr.i
        /\ (FfmpegReturned(t) /\ tr.op = "cut")
           => /\ tr.pc = "s_loop"
              /\ (tr.chunks # <<>> /\ tr.chunks[Len(tr.chunks)] = tr.i - 1)
                    <=> (tr.success /\ (tr.i - 1) \in chunk_files)
        /\ (Stepped(t, "s_loop") /\ tr.pc = "w_dubbing")
           => tr.chunks # <<>> /\ tr.i = tr.n
        /\ (Stepped(t, "s_loop") /\ tr.pc \notin {"ff_wait", "w_dubbing"})
           => /\ tr.pc = "w_exc_result"
              /\ tr.chunks = <<>> /\ tr.i = tr.n
              /\ tr.result = FailResult(M("no_chunks_error"))
              /\ current_status.status = "error"
        /\ (Stepped(t, "s_probe_wait") /\ tr.pc # "s_loop")
           => /\ tr.pc = "w_exc_result"
              /\ tr.op = "" /\ tr.chunks = <<>>
              /\ tr.result = FailResult(M("duration_error"))
              /\ current_status.status = "error"
        /\ (tr.pc \in {"w_exc_result", "w_exc_return"}
            /\ tr.result \in {FailResult(M("no_chunks_error")),
                              FailResult(M("duration_error"))})
           => /\ ~tr.is_logged_in
              /\ tr.transformed \cup tr.skipped = {}
              /\ tr.invoked \cap ReassemblerOps = {}

\* A split that skipped the rejected middle cut and returned the other two.
C28_Witness ==
    \E t \in DOMAIN task :
        /\ Stepped(t, "s_loop") /\ task[t].pc = "w_dubbing"
        /\ task[t].chunks = <<0, 2>>
        /\ 1 \notin chunk_files

\* C29: a segment counts as transformed in a job only if an agent run of that
\* job saved its output: a file left at the same path by an earlier job does
\* not turn a failed attempt into a success.
C29_TransformedByThisJob ==
    \A t \in DOMAIN task : task[t].transformed \subseteq task[t].written

\* The two answers that say there is nothing to cancel.
NothingToCancel == {ErrorMsg("no_running_workflow"), HttpResponse(200, FALSE)}

\* C30: a cancel request handled while a workflow is running, whichever entry
\* point started it, is not answered with "no running workflow", and every
\* running workflow is then asked to stop.
C30_CancelReachesRunning ==
    (ev.kind \in CancelKinds /\ \E t \in DOMAIN task : Running(t))
    => /\ ev.reply \notin NothingToCancel
       /\ \A t \in DOMAIN task : Running(t) /\ task[t].pc # "x_cancel" => task[t].must_cancel

\* The steps of a job's task: a step of the coroutine, the delivery of a
\* cancellation, the exit of a child process.
TaskKinds == {"step", "cancelled", "exit"}

\* C31: once a reset has been handled no job is active, and the status stays
\* the idle snapshot until a start request is accepted: the step that follows
\* the reset, if it is a step of a job, leaves the idle snapshot in place.
C31_ResetIsQuiet ==
    [][ev.kind = "ws_reset"
       => /\ \A t \in DOMAIN task : ~Live(t)
          /\ ev'.kind \in TaskKinds => current_status' = IdleStatus]_vars

\* The positions of the result messages in what a job has broadcast.
Results(sent) == {j \in 1..Len(sent) : sent[j] = "result"}

\* C32: a job broadcasts at most one result message, only after the snapshot
\* with its status completed or error, and a job whose task ends cancelled has
\* broadcast none.
C32_OneResultAfterTerminal ==
    [][\A t \in DOMAIN task :
          /\ Cardinality(Results(task'[t].sent)) <= 1
          /\ \A j \in Results(task'[t].sent) :
                j > 1 /\ task'[t].sent[j - 1] \in {"completed", "error"}
          /\ (ev'.kind = "cancelled" /\ ev'.t = t) => Results(task[t].sent) = {}]_vars

====
